---------------------------- MODULE Spec2Model ----------------------------
(***************************************************************************)
(* Session orchestration of the banking assistant: SupervisorAgent of      *)
(* app/copilot/app/agents/azure_chat/supervisor_agent.py.                  *)
(*                                                                         *)
(* One SupervisorAgent object serves every turn.  Its two class-level      *)
(* dictionaries (thread_store, supervisor_thread_store) and its two        *)
(* instance attributes (self.current_thread, self.user_message) are shared *)
(* by all in-flight turns.  A turn is one call of processMessage or of     *)
(* processMessageStream; it is a coroutine, so the code between two awaits *)
(* runs atomically and every await is a point where another turn may run   *)
(* and where the awaited call may raise.  One action of this module is one *)
(* such atomic block.                                                      *)
(*                                                                         *)
(* Texts are opaque to the orchestrator (it never branches on them), so    *)
(* each turn's utterance is tagged with the turn: a text that reaches the  *)
(* wrong place is then visible.                                            *)
(***************************************************************************)
EXTENDS Integers, Sequences, FiniteSets, TLC

\* ------------------------------------------------------------- bounds
\* number of calls of processMessage / processMessageStream
MaxTurns == 2
\* number of non-empty text chunks run_stream can produce in one turn
MaxChunks == 2
\* number of tool calls the router's model can make in one run
MaxDispatches == 2

Turns == 1..MaxTurns

\* ------------------------------------------------------------- values
\* Python None, as a thread id
None == -1
\* a session id the caller made up: uuid4 never returns it
Fabricated == 0
\* self.current_thread before any turn has set it
NoThread == 0

Text(k, n) == [kind |-> k, of |-> n]
NoText == Text("none", 0)
\* the caller's utterance of turn t
Utterance(t) == Text("utterance", t)
\* the user_message argument the router's model writes for a tool call
Generated(t) == Text("generated", t)
\* the text a responder answers to the text it was run with
Reply(txt) == Text("reply", txt.of)
\* the router's own wording of a responder's answer
Reworded(txt) == Text("reworded", txt.of)
\* the router's answer when no triage rule applies
Decline == Text("decline", 0)
\* the closing text of a clean stream (line 129)
Empty == Text("empty", 0)

Msg(r, txt) == [role |-> r, text |-> txt]

\* ------------------------------------------------------------- state
VARIABLES
  thread_store,               \* SupervisorAgent.thread_store: id -> serialized thread
  supervisor_thread_store,    \* SupervisorAgent.supervisor_thread_store
  current_thread,             \* self.current_thread: the turn whose dialogue thread object it is
  user_message,               \* self.user_message
  uuid,                       \* the next value of uuid4()
  pc,                         \* where each turn's coroutine is suspended
  streaming,                  \* TRUE: the turn is a processMessageStream call
  thread_id,                  \* the thread_id argument of the turn
  processed_thread_id,        \* the local processed_thread_id
  dialogue_thread,            \* the thread object the turn created (line 81/92, 147/162)
  supervisor_resumed_thread,  \* the local supervisor_resumed_thread object
  dispatched,                 \* what the responder run of the turn was given
  response,                   \* response.text (processMessage) / full_response
  chunks,                     \* number of chunks relayed so far
  serializing,                \* the thread object line 125/176 called serialize() on
  emitted,                    \* the elements the generator has yielded
  result,                     \* what processMessage gave its caller
  resolved,                   \* serialized_thread, supervisor_serialized_thread; for a new
                              \* session, history: the lanes lines 83-84 / 149-150 stored
  clean,                      \* history: no other turn wrote this turn's key
  persisted                   \* history: lanes written by lines 125-126 / 176-177

storeVars == <<thread_store, supervisor_thread_store>>
selfVars == <<current_thread, user_message>>
argVars == <<streaming, thread_id>>
outVars == <<emitted, result>>
vars == <<thread_store, supervisor_thread_store, current_thread, user_message,
          uuid, pc, streaming, thread_id, processed_thread_id, dialogue_thread,
          supervisor_resumed_thread, dispatched, response, chunks, serializing,
          emitted,
          result, resolved, clean, persisted>>

\* ------------------------------------------------------------- helpers
\* d[k] = v on a Python dict
Put(d, k, v) == [x \in DOMAIN d \cup {k} |-> IF x = k THEN v ELSE d[x]]

\* AgentThread.serialize(): the messages of the thread object, by value
Serialize(thread) == thread

NoDispatch == [calls |-> 0, text |-> NoText, thread |-> NoThread, argument |-> NoText,
               log |-> << >>]
Pending == [kind |-> "pending", text |-> NoText, thread_id |-> None]
Lanes(d, s) == [dialogue |-> d, routing |-> s]

\* the thread ids a caller can supply: none, a made-up one, one uuid4 returned
Supplied == {None, Fabricated} \cup 1..(uuid - 1)

Init ==
  /\ thread_store = << >>
  /\ supervisor_thread_store = << >>
  /\ current_thread = NoThread
  /\ user_message = NoText
  /\ uuid = 1
  /\ pc = [t \in Turns |-> "idle"]
  /\ streaming = [t \in Turns |-> FALSE]
  /\ thread_id = [t \in Turns |-> None]
  /\ processed_thread_id = [t \in Turns |-> None]
  /\ dialogue_thread = [t \in Turns |-> << >>]
  /\ supervisor_resumed_thread = [t \in Turns |-> << >>]
  /\ dispatched = [t \in Turns |-> NoDispatch]
  /\ response = [t \in Turns |-> NoText]
  /\ chunks = [t \in Turns |-> 0]
  /\ serializing = [t \in Turns |-> NoThread]
  /\ emitted = [t \in Turns |-> << >>]
  /\ result = [t \in Turns |-> Pending]
  /\ resolved = [t \in Turns |-> Lanes(<< >>, << >>)]
  /\ clean = [t \in Turns |-> TRUE]
  /\ persisted = [t \in Turns |-> {}]

\* a write of turn t to key k: every other turn working on k is no longer alone
Touch(t, k) == [u \in Turns |-> IF u # t /\ processed_thread_id[u] = k THEN FALSE ELSE clean[u]]


\* ------------------------------------------------------------- results
Element(txt, fin, id) == [text |-> txt, is_final |-> fin, thread_id |-> id]
\* AgentThreadException(f"Thread id {processed_thread_id} not found in thread stores")
NotFound(id) == Text("AgentThreadException", id)
\* any other exception an awaited call raises
Failure == Text("Exception", 0)
\* f"I apologize, ... error while processing your request: {str(e)}"
Apology(e) == Text(IF e.kind = "AgentThreadException" THEN "apology_thread_not_found" ELSE "apology", e.of)
StreamingFailed == Text("streaming_failed", 0)
StreamingUnsupported == Text("streaming_unsupported", 0)
\* processMessage ends by an exception that reaches its caller
Raised(e) == [kind |-> "raised", text |-> e, thread_id |-> None]
\* return response.text, processed_thread_id
Returned(txt, id) == [kind |-> "returned", text |-> txt, thread_id |-> id]

\* a relayed chunk that carries the session id as the final element does
ChunkElementWithId(t, content) == Element(content, FALSE, processed_thread_id[t])

\* yield (content, False, None)
ChunkElement(t, content) == Element(content, FALSE, None)
\* a streaming-unsupported element that carries the id the caller gave
UnsupportedElementEchoed(t) == Element(StreamingUnsupported, TRUE, thread_id[t])

\* yield (error_message, True, processed_thread_id), streaming unsupported
UnsupportedElement(t) == Element(StreamingUnsupported, TRUE, processed_thread_id[t])
\* yield (error_message, True, processed_thread_id), the stream raised
StreamErrorElement(t) == Element(StreamingFailed, TRUE, processed_thread_id[t])
\* yield ("", True, processed_thread_id)
FinalElement(t) == Element(Empty, TRUE, processed_thread_id[t])
\* yield (error_message, True, thread_id): the argument, not processed_thread_id
ErrorElement(id, e) == Element(Apology(e), TRUE, id)

\* ------------------------------------------------------------- session resolution
\* not (serialized_thread is None or supervisor_serialized_thread is None)
Known(id) == id \in DOMAIN thread_store /\ id \in DOMAIN supervisor_thread_store

\* thread_id is None: a new thread object becomes self.current_thread, an id is minted
NewSession(t) ==
  /\ current_thread' = t
  /\ processed_thread_id' = [processed_thread_id EXCEPT ![t] = uuid]
  /\ uuid' = uuid + 1
  /\ resolved' = [resolved EXCEPT ![t] = Lanes(<< >>, << >>)]
  /\ pc' = [pc EXCEPT ![t] = "init_dialogue"]
  /\ UNCHANGED storeVars

\* both lanes found: they are read into locals, update_from_thread_state is awaited
Resume(t, id) ==
  /\ processed_thread_id' = [processed_thread_id EXCEPT ![t] = id]
  /\ resolved' = [resolved EXCEPT ![t] = Lanes(thread_store[id], supervisor_thread_store[id])]
  /\ pc' = [pc EXCEPT ![t] = "load_dialogue"]
  /\ UNCHANGED <<storeVars, current_thread, uuid>>

\* a turn that finds no state under the id it was given creates the session
NotFoundSessionCreated(t, id) ==
  /\ processed_thread_id' = [processed_thread_id EXCEPT ![t] = id]
  /\ thread_store' = IF id \in DOMAIN thread_store THEN thread_store ELSE Put(thread_store, id, << >>)
  /\ supervisor_thread_store' =
       IF id \in DOMAIN supervisor_thread_store THEN supervisor_thread_store
                                                ELSE Put(supervisor_thread_store, id, << >>)
  /\ UNCHANGED <<resolved, current_thread, uuid>>

\* serialized_thread is None or supervisor_serialized_thread is None: the turn has
\* read the two dictionaries with .get and raises AgentThreadException
NotFoundSession(t, id) ==
  /\ processed_thread_id' = [processed_thread_id EXCEPT ![t] = id]
  /\ UNCHANGED <<storeVars, resolved, current_thread, uuid>>

\* the exception leaves processMessage: its caller gets no result
Raise(t, e) ==
  /\ result' = [result EXCEPT ![t] = Raised(e)]
  /\ pc' = [pc EXCEPT ![t] = "done"]

\* the generator yields its last element and ends
YieldLast(t, el) ==
  /\ emitted' = [emitted EXCEPT ![t] = Append(@, el)]
  /\ pc' = [pc EXCEPT ![t] = "done"]

\* Turns differ only in their tag, so they are taken up in the order of the tags.
NextCall(t) == pc[t] = "idle" /\ \A u \in Turns : u < t => pc[u] # "idle"

\* processMessage up to its first await (lines 141-157)
processMessage(t) ==
  /\ NextCall(t)
  /\ \E id \in Supplied, built \in BOOLEAN :
       /\ streaming' = [streaming EXCEPT ![t] = FALSE]
       /\ thread_id' = [thread_id EXCEPT ![t] = id]
       /\ IF ~built
            THEN /\ Raise(t, Failure)
                 /\ UNCHANGED <<storeVars, processed_thread_id, resolved, current_thread, uuid>>
          ELSE IF id = None
            THEN NewSession(t) /\ UNCHANGED result
          ELSE IF ~Known(id)
            THEN Raise(t, NotFound(id)) /\ NotFoundSession(t, id)
          ELSE Resume(t, id) /\ UNCHANGED result
  /\ UNCHANGED <<user_message, dialogue_thread, supervisor_resumed_thread,
                 dispatched, response, chunks, serializing, emitted, clean, persisted>>

\* processMessageStream up to its first await (lines 72-90, 131-135)
processMessageStream(t) ==
  /\ NextCall(t)
  /\ \E id \in Supplied, built \in BOOLEAN :
       /\ streaming' = [streaming EXCEPT ![t] = TRUE]
       /\ thread_id' = [thread_id EXCEPT ![t] = id]
       /\ IF ~built
            THEN /\ YieldLast(t, ErrorElement(id, Failure))
                 /\ UNCHANGED <<storeVars, processed_thread_id, resolved, current_thread, uuid>>
          ELSE IF id = None
            THEN NewSession(t) /\ UNCHANGED emitted
          ELSE IF ~Known(id)
            THEN YieldLast(t, ErrorElement(id, NotFound(id))) /\ NotFoundSession(t, id)
          ELSE Resume(t, id) /\ UNCHANGED emitted
  /\ UNCHANGED <<user_message, dialogue_thread, supervisor_resumed_thread,
                 dispatched, response, chunks, serializing, result, clean, persisted>>

\* ------------------------------------------------------------- lanes of a new or resumed session
\* self.user_message = user_message; then agent.run / agent.run_stream is awaited.
\* hasattr(agent, 'run_stream') is a property of the agent object the client built.
BeginRun(t) ==
  /\ user_message' = Utterance(t)
  /\ IF streaming[t]
       THEN \E has_run_stream \in BOOLEAN :
              IF has_run_stream
                THEN pc' = [pc EXCEPT ![t] = "routing"] /\ UNCHANGED emitted
                ELSE YieldLast(t, UnsupportedElement(t))
       ELSE pc' = [pc EXCEPT ![t] = "routing"] /\ UNCHANGED emitted

\* thread_store[processed_thread_id] = await self.current_thread.serialize()  (new session)
InitDialogueLane(t) ==
  /\ pc[t] = "init_dialogue"
  /\ thread_store' = Put(thread_store, processed_thread_id[t], Serialize(dialogue_thread[t]))
  /\ resolved' = [resolved EXCEPT ![t].dialogue = Serialize(dialogue_thread[t])]
  /\ clean' = Touch(t, processed_thread_id[t])
  /\ pc' = [pc EXCEPT ![t] = "init_supervisor"]
  /\ UNCHANGED <<supervisor_thread_store, selfVars, uuid, argVars, processed_thread_id,
                 dialogue_thread, supervisor_resumed_thread, dispatched, response, chunks,
                 serializing, outVars, persisted>>

\* a new session whose routing lane is left for the end of the turn to write
InitSupervisorLaneDeferred(t) ==
  /\ pc[t] = "init_supervisor"
  /\ BeginRun(t)
  /\ UNCHANGED <<storeVars, current_thread, uuid, argVars, processed_thread_id,
                 dialogue_thread, supervisor_resumed_thread, dispatched, response, chunks,
                 serializing, result, resolved, clean, persisted>>

\* supervisor_thread_store[processed_thread_id] = await supervisor_resumed_thread.serialize()
InitSupervisorLane(t) ==
  /\ pc[t] = "init_supervisor"
  /\ supervisor_thread_store' =
       Put(supervisor_thread_store, processed_thread_id[t], Serialize(supervisor_resumed_thread[t]))
  /\ resolved' = [resolved EXCEPT ![t].routing = Serialize(supervisor_resumed_thread[t])]
  /\ clean' = Touch(t, processed_thread_id[t])
  /\ BeginRun(t)
  /\ UNCHANGED <<thread_store, current_thread, uuid, argVars, processed_thread_id,
                 dialogue_thread, supervisor_resumed_thread, dispatched, response, chunks,
                 serializing, result, persisted>>

\* await resumed_thread.update_from_thread_state(serialized_thread);
\* self.current_thread = resumed_thread
LoadDialogueLane(t) ==
  /\ pc[t] = "load_dialogue"
  /\ dialogue_thread' = [dialogue_thread EXCEPT ![t] = resolved[t].dialogue]
  /\ current_thread' = t
  /\ pc' = [pc EXCEPT ![t] = "load_supervisor"]
  /\ UNCHANGED <<storeVars, user_message, uuid, argVars, processed_thread_id,
                 supervisor_resumed_thread, dispatched, response, chunks, serializing,
                 outVars, resolved, clean, persisted>>

\* await supervisor_resumed_thread.update_from_thread_state(supervisor_serialized_thread)
LoadSupervisorLane(t) ==
  /\ pc[t] = "load_supervisor"
  /\ supervisor_resumed_thread' = [supervisor_resumed_thread EXCEPT ![t] = resolved[t].routing]
  /\ BeginRun(t)
  /\ UNCHANGED <<storeVars, current_thread, uuid, argVars, processed_thread_id,
                 dialogue_thread, dispatched, response, chunks, serializing,
                 result, resolved, clean, persisted>>

\* ------------------------------------------------------------- router and responders
\* a routing tool has run in the turn
Dispatched(t) == dispatched[t].calls > 0

\* a routing tool that awaits something that neither returns nor raises
RouteToNeverReturns(t) ==
  /\ pc[t] \in {"routing", "answering", "yielded"}
  /\ dispatched[t].calls < MaxDispatches
  /\ dispatched' = [dispatched EXCEPT ![t].calls = @ + 1]
  /\ pc' = [pc EXCEPT ![t] = "blocked"]
  /\ UNCHANGED <<storeVars, selfVars, uuid, argVars, processed_thread_id, dialogue_thread,
                 supervisor_resumed_thread, response, chunks, serializing, outVars,
                 resolved, clean, persisted>>

\* the text the tool hands the responder: self.user_message, not its argument
ForwardedText(t, argument) == user_message

\* the thread the tool hands the responder: self.current_thread
ForwardedThread(t) == current_thread

\* the awaits of the router's run: before a tool call, after a tool returned, and
\* after a chunk was yielded and the caller asked for the next element
InRun == {"routing", "answering", "yielded"}

\* the body the three routing tools share: the router's model calls the tool with a
\* text of its own; the tool builds its responder and awaits
\* af_agent.run(self.user_message, thread=self.current_thread).  The agent is built
\* with the three tools and nothing else (lines 58-61): whether and how often its
\* model calls a tool during one run is the model's choice.
RouteTo(t) ==
  /\ pc[t] \in InRun
  /\ dispatched[t].calls < MaxDispatches
  /\ dispatched' = [dispatched EXCEPT ![t] =
       [calls |-> @.calls + 1, text |-> ForwardedText(t, Generated(t)),
        thread |-> ForwardedThread(t), argument |-> Generated(t), log |-> @.log]]
  /\ pc' = [pc EXCEPT ![t] = "responding"]
  /\ UNCHANGED <<storeVars, selfVars, uuid, argVars, processed_thread_id, dialogue_thread,
                 supervisor_resumed_thread, response, chunks, serializing, outVars,
                 resolved, clean, persisted>>

\* the responders are opaque and the three tools differ only in the responder they
\* build, so the turn's state does not record which one ran
route_to_account_agent(t) == RouteTo(t)

route_to_transaction_agent(t) == RouteTo(t)

route_to_payment_agent(t) == RouteTo(t)

\* what a responder's run appends to the thread it was given
Exchange(txt) == <<Msg("user", txt), Msg("assistant", Reply(txt))>>

\* what a tool call leaves in the router's run: the call and the text it returned
ToolMessages(argument, txt) == <<Msg("tool_call", argument), Msg("tool", Reply(txt))>>

\* response = await af_agent.run(self.user_message, thread=self.current_thread);
\* return response.text
ResponderReturns(t) ==
  /\ pc[t] = "responding"
  /\ dialogue_thread' = [dialogue_thread EXCEPT ![dispatched[t].thread] = @ \o Exchange(dispatched[t].text)]
  /\ dispatched' = [dispatched EXCEPT ![t].log =
       @ \o ToolMessages(dispatched[t].argument, dispatched[t].text)]
  /\ pc' = [pc EXCEPT ![t] = "answering"]
  /\ UNCHANGED <<storeVars, selfVars, uuid, argVars, processed_thread_id,
                 supervisor_resumed_thread, response, chunks, serializing,
                 outVars, resolved, clean, persisted>>

\* what the router's model can answer: a decline when it called no tool, else the
\* responder's answer, relayed as it is or in the router's words
RouterAnswers(t) ==
  IF ~Dispatched(t)
    THEN {Decline}
    ELSE {Reply(dispatched[t].text), Reworded(Reply(dispatched[t].text))}

\* what the router's run appends to supervisor_resumed_thread when it completes:
\* the caller's text, the tool calls and their results, the router's answer
RouterMessages(t, answer) ==
  <<Msg("user", Utterance(t))>> \o dispatched[t].log \o <<Msg("assistant", answer)>>

\* the run of the router is over: its thread has the turn, line 125/176 calls
\* self.current_thread.serialize()
RunCompletes(t, answer) ==
  /\ response' = [response EXCEPT ![t] = answer]
  /\ supervisor_resumed_thread' = [supervisor_resumed_thread EXCEPT ![t] = @ \o RouterMessages(t, answer)]
  /\ serializing' = [serializing EXCEPT ![t] = current_thread]
  /\ pc' = [pc EXCEPT ![t] = "persist_dialogue"]

\* response = await agent.run(user_message, thread=supervisor_resumed_thread)
AgentRun(t) ==
  /\ ~streaming[t]
  /\ pc[t] \in {"routing", "answering"}
  /\ \E answer \in RouterAnswers(t) : RunCompletes(t, answer)
  /\ UNCHANGED <<storeVars, selfVars, uuid, argVars, processed_thread_id, dialogue_thread,
                 dispatched, chunks, outVars, resolved, clean, persisted>>

\* a chunk with text that is counted but not yielded
RelayChunkUnyielded(t) ==
  /\ streaming[t]
  /\ pc[t] \in InRun
  /\ chunks[t] < MaxChunks
  /\ chunks' = [chunks EXCEPT ![t] = @ + 1]
  /\ pc' = [pc EXCEPT ![t] = "yielded"]
  /\ UNCHANGED <<storeVars, selfVars, uuid, argVars, processed_thread_id, dialogue_thread,
                 supervisor_resumed_thread, dispatched, response, serializing, outVars,
                 resolved, clean, persisted>>

\* async for chunk in agent.run_stream(...): a chunk with text is relayed, the
\* generator is suspended at the yield of line 117
RelayChunk(t) ==
  /\ streaming[t]
  /\ pc[t] \in InRun
  /\ chunks[t] < MaxChunks
  /\ chunks' = [chunks EXCEPT ![t] = @ + 1]
  /\ emitted' = [emitted EXCEPT ![t] = Append(@, ChunkElement(t, Text("chunk", chunks[t] + 1)))]
  /\ pc' = [pc EXCEPT ![t] = "yielded"]
  /\ UNCHANGED <<storeVars, selfVars, uuid, argVars, processed_thread_id, dialogue_thread,
                 supervisor_resumed_thread, dispatched, response, serializing, result,
                 resolved, clean, persisted>>

\* the chunk sequence ends
StreamEnds(t) ==
  /\ streaming[t]
  /\ pc[t] \in InRun
  /\ \E answer \in RouterAnswers(t) : RunCompletes(t, answer)
  /\ UNCHANGED <<storeVars, selfVars, uuid, argVars, processed_thread_id, dialogue_thread,
                 dispatched, chunks, outVars, resolved, clean, persisted>>

\* ------------------------------------------------------------- persisting and ending
\* a persist under the id minted last, as if the id were kept on self
PersistDialogueLaneUnderLatest(t) ==
  /\ pc[t] = "persist_dialogue"
  /\ thread_store' = Put(thread_store, uuid - 1, Serialize(dialogue_thread[serializing[t]]))
  /\ clean' = Touch(t, uuid - 1)
  /\ persisted' = [persisted EXCEPT ![t] = @ \cup {"dialogue"}]
  /\ pc' = [pc EXCEPT ![t] = "persist_supervisor"]
  /\ UNCHANGED <<supervisor_thread_store, selfVars, uuid, argVars, processed_thread_id,
                 dialogue_thread, supervisor_resumed_thread, dispatched, response, chunks,
                 serializing, outVars, resolved>>

\* thread_store[processed_thread_id] = await self.current_thread.serialize()
PersistDialogueLane(t) ==
  /\ pc[t] = "persist_dialogue"
  /\ thread_store' =
       Put(thread_store, processed_thread_id[t], Serialize(dialogue_thread[serializing[t]]))
  /\ clean' = Touch(t, processed_thread_id[t])
  /\ persisted' = [persisted EXCEPT ![t] = @ \cup {"dialogue"}]
  /\ pc' = [pc EXCEPT ![t] = "persist_supervisor"]
  /\ UNCHANGED <<supervisor_thread_store, selfVars, uuid, argVars, processed_thread_id,
                 dialogue_thread, supervisor_resumed_thread, dispatched, response, chunks,
                 serializing, outVars, resolved>>

\* the routing lane is written only when a responder was dispatched
PersistSupervisorLaneIfDispatched(t) ==
  /\ pc[t] = "persist_supervisor"
  /\ IF Dispatched(t)
       THEN /\ supervisor_thread_store' =
                 Put(supervisor_thread_store, processed_thread_id[t],
                     Serialize(supervisor_resumed_thread[t]))
            /\ clean' = Touch(t, processed_thread_id[t])
            /\ persisted' = [persisted EXCEPT ![t] = @ \cup {"routing"}]
       ELSE UNCHANGED <<supervisor_thread_store, clean, persisted>>
  /\ IF streaming[t]
       THEN YieldLast(t, FinalElement(t)) /\ UNCHANGED result
       ELSE /\ result' = [result EXCEPT ![t] = Returned(response[t], processed_thread_id[t])]
            /\ pc' = [pc EXCEPT ![t] = "done"]
            /\ UNCHANGED emitted
  /\ UNCHANGED <<thread_store, selfVars, uuid, argVars, processed_thread_id,
                 dialogue_thread, supervisor_resumed_thread, dispatched, response, chunks,
                 serializing, resolved>>

\* supervisor_thread_store[processed_thread_id] = await supervisor_resumed_thread.serialize();
\* then return response.text, processed_thread_id / yield ("", True, processed_thread_id)
PersistSupervisorLane(t) ==
  /\ pc[t] = "persist_supervisor"
  /\ supervisor_thread_store' =
       Put(supervisor_thread_store, processed_thread_id[t], Serialize(supervisor_resumed_thread[t]))
  /\ clean' = Touch(t, processed_thread_id[t])
  /\ persisted' = [persisted EXCEPT ![t] = @ \cup {"routing"}]
  /\ IF streaming[t]
       THEN YieldLast(t, FinalElement(t)) /\ UNCHANGED result
       ELSE /\ result' = [result EXCEPT ![t] = Returned(response[t], processed_thread_id[t])]
            /\ pc' = [pc EXCEPT ![t] = "done"]
            /\ UNCHANGED emitted
  /\ UNCHANGED <<thread_store, selfVars, uuid, argVars, processed_thread_id,
                 dialogue_thread, supervisor_resumed_thread, dispatched, response, chunks,
                 serializing, resolved>>

\* the awaits inside the inner try of processMessageStream (lines 110-117)
InStream == {"routing", "responding", "answering", "yielded"}
\* the other awaits of a turn
OutOfStream == {"init_dialogue", "init_supervisor", "load_dialogue", "load_supervisor",
                "persist_dialogue", "persist_supervisor"}

\* an awaited call of processMessage raises: nothing catches it
AwaitRaises(t) ==
  /\ ~streaming[t]
  /\ pc[t] \in InStream \cup OutOfStream
  /\ Raise(t, Failure)
  /\ UNCHANGED <<storeVars, selfVars, uuid, argVars, processed_thread_id, dialogue_thread,
                 supervisor_resumed_thread, dispatched, response, chunks, serializing,
                 emitted, resolved, clean, persisted>>

\* a handler of the stream's exception that stores the partial turn before it yields
StreamRaisesAndPersists(t) ==
  /\ streaming[t]
  /\ pc[t] \in InStream
  /\ thread_store' =
       Put(thread_store, processed_thread_id[t], Serialize(dialogue_thread[current_thread]))
  /\ supervisor_thread_store' =
       Put(supervisor_thread_store, processed_thread_id[t], Serialize(supervisor_resumed_thread[t]))
  /\ clean' = Touch(t, processed_thread_id[t])
  /\ persisted' = [persisted EXCEPT ![t] = {"dialogue", "routing"}]
  /\ YieldLast(t, StreamErrorElement(t))
  /\ UNCHANGED <<selfVars, uuid, argVars, processed_thread_id, dialogue_thread,
                 supervisor_resumed_thread, dispatched, response, chunks, serializing,
                 result, resolved>>

\* except Exception as stream_error: the chunk sequence raises (lines 118-122)
StreamRaises(t) ==
  /\ streaming[t]
  /\ pc[t] \in InStream
  /\ YieldLast(t, StreamErrorElement(t))
  /\ UNCHANGED <<storeVars, selfVars, uuid, argVars, processed_thread_id, dialogue_thread,
                 supervisor_resumed_thread, dispatched, response, chunks, serializing,
                 result, resolved, clean, persisted>>

\* a generator that stores the partial turn when it is closed
acloseAndPersists(t) ==
  /\ streaming[t]
  /\ pc[t] = "yielded"
  /\ thread_store' =
       Put(thread_store, processed_thread_id[t], Serialize(dialogue_thread[current_thread]))
  /\ supervisor_thread_store' =
       Put(supervisor_thread_store, processed_thread_id[t], Serialize(supervisor_resumed_thread[t]))
  /\ clean' = Touch(t, processed_thread_id[t])
  /\ persisted' = [persisted EXCEPT ![t] = {"dialogue", "routing"}]
  /\ pc' = [pc EXCEPT ![t] = "closed"]
  /\ UNCHANGED <<selfVars, uuid, argVars, processed_thread_id, dialogue_thread,
                 supervisor_resumed_thread, dispatched, response, chunks, serializing,
                 outVars, resolved>>

\* the caller closes the generator while it is suspended at the yield of line 117:
\* GeneratorExit is raised there; it is no Exception, so neither handler runs
aclose(t) ==
  /\ streaming[t]
  /\ pc[t] = "yielded"
  /\ pc' = [pc EXCEPT ![t] = "closed"]
  /\ UNCHANGED <<storeVars, selfVars, uuid, argVars, processed_thread_id, dialogue_thread,
                 supervisor_resumed_thread, dispatched, response, chunks, serializing,
                 outVars, resolved, clean, persisted>>

\* except Exception as e: any other await of processMessageStream raises (lines 131-135)
StreamTurnRaises(t) ==
  /\ streaming[t]
  /\ pc[t] \in OutOfStream
  /\ YieldLast(t, ErrorElement(thread_id[t], Failure))
  /\ UNCHANGED <<storeVars, selfVars, uuid, argVars, processed_thread_id, dialogue_thread,
                 supervisor_resumed_thread, dispatched, response, chunks, serializing,
                 result, resolved, clean, persisted>>

\* turn t goes on from an await: the awaited call returns or raises, or the caller
\* asks the generator for its next element
Proceed(t) ==
    \/ InitDialogueLane(t)
    \/ InitSupervisorLane(t)
    \/ LoadDialogueLane(t)
    \/ LoadSupervisorLane(t)
    \/ route_to_account_agent(t)
    \/ route_to_transaction_agent(t)
    \/ route_to_payment_agent(t)
    \/ ResponderReturns(t)
    \/ AgentRun(t)
    \/ RelayChunk(t)
    \/ StreamEnds(t)
    \/ PersistDialogueLane(t)
    \/ PersistSupervisorLane(t)
    \/ AwaitRaises(t)
    \/ StreamRaises(t)
    \/ StreamTurnRaises(t)

Next ==
  \E t \in Turns :
    \/ processMessage(t)
    \/ processMessageStream(t)
    \/ Proceed(t)
    \/ aclose(t)

Spec == Init /\ [][Next]_vars

\* one call at a time: a turn is called, and goes on, only while no other is in flight
Solo(t) == \A u \in Turns \ {t} : pc[u] \in {"idle", "done", "closed"}

SeqNext ==
  \E t \in Turns :
    /\ Solo(t)
    /\ \/ processMessage(t)
       \/ processMessageStream(t)
       \/ Proceed(t)
       \/ aclose(t)

SeqSpec == Init /\ [][SeqNext]_vars

\* the event loop resumes every coroutine whose awaited call is over, every awaited
\* call returns or raises, and a caller that does not close the generator goes on
\* asking it for elements
FairSpec == Spec /\ \A t \in Turns : WF_vars(Proceed(t))

\* ------------------------------------------------------------- vocabulary of the claims
Last(seq) == seq[Len(seq)]
Streamed(t) == streaming[t] /\ pc[t] = "done"
\* the turn ended on its clean path: line 129 or line 179
Completed(t) ==
  /\ pc[t] = "done"
  /\ IF streaming[t] THEN Last(emitted[t]).text = Empty ELSE result[t].kind = "returned"
\* the turn found no state, or one lane only, under the id it was given
SessionNotFound(t) ==
  /\ pc[t] = "done"
  /\ IF streaming[t] THEN Last(emitted[t]).text.kind = "apology_thread_not_found"
                     ELSE result[t].text.kind = "AgentThreadException"
\* the chunk sequence of the turn raised
MidStreamFailure(t) == Streamed(t) /\ Last(emitted[t]).text = StreamingFailed
\* the caller closed the generator before its final element
Abandoned(t) == streaming[t] /\ pc[t] = "closed"
\* the turn is over: DONE or ERROR, or the caller closed the generator
Ended(t) ==
  IF streaming[t]
    THEN pc[t] = "closed" \/ (pc[t] = "done" /\ Last(emitted[t]).is_final)
    ELSE pc[t] = "done" /\ result[t].kind \in {"returned", "raised"}
\* no other turn works on the session id of turn t
AloneOnSession(t) ==
  \A u \in Turns : u # t => processed_thread_id[u] # processed_thread_id[t]
Texts(thread) == {thread[i].text : i \in 1..Len(thread)}
\* a thread without the tags that tell the turns' texts apart
Untagged(thread) ==
  [i \in 1..Len(thread) |-> Msg(thread[i].role, Text(thread[i].text.kind, 0))]
RECURSIVE Repeated(_, _)
Repeated(seq, n) == IF n = 0 THEN << >> ELSE seq \o Repeated(seq, n - 1)

\* C1: a streaming turn that has ended emitted exactly one final element, as its
\* last element, and no element before it carries a session id; while the turn runs
\* it has emitted no final element.
StreamingTerminalContract ==
  \A t \in Turns :
    /\ \A i \in 1..Len(emitted[t]) :
         /\ emitted[t][i].is_final => i = Len(emitted[t]) /\ pc[t] = "done"
         /\ ~emitted[t][i].is_final => emitted[t][i].thread_id = None
    /\ Streamed(t) => Len(emitted[t]) > 0 /\ Last(emitted[t]).is_final

\* a stream that relayed chunks and then ended with its id
StreamingTerminalWitness ==
  \E t \in Turns :
    /\ Streamed(t)
    /\ Len(emitted[t]) = MaxChunks + 1
    /\ Last(emitted[t]).thread_id = processed_thread_id[t]
    /\ processed_thread_id[t] # None

\* C2: a session id is a key of thread_store exactly when it is a key of
\* supervisor_thread_store, in every state.
SessionLaneCoupling == DOMAIN thread_store = DOMAIN supervisor_thread_store

\* C3: the text a responder is run with is the utterance of the turn that
\* dispatched it.
OriginalUtteranceForwarding ==
  \A t \in Turns : Dispatched(t) => dispatched[t].text = Utterance(t)

\* C4: of two turns on different session ids, each responder runs on the dialogue
\* thread of its own turn, and a completed turn has stored the dialogue it started
\* from plus its own exchange, once for each dispatch.
IndependentSessions ==
  \A t \in Turns :
    AloneOnSession(t) =>
      /\ Dispatched(t) => dispatched[t].thread = t
      /\ Completed(t) =>
           thread_store[processed_thread_id[t]] =
             resolved[t].dialogue \o Repeated(Exchange(Utterance(t)), dispatched[t].calls)

\* C5: a streaming turn whose chunk sequence raised after at least one chunk ended
\* with one final element carrying the error text and the turn's session id, and
\* wrote neither lane after it resolved (or, for a new session, initialised) the
\* session: as long as no other turn wrote them, the two lanes under the id are
\* the ones the turn started from, and a later processMessage call on the id
\* resolves exactly them.
MidStreamFailureNoPersist ==
  \A t \in Turns :
    (MidStreamFailure(t) /\ chunks[t] > 0) =>
      /\ Last(emitted[t]) = Element(StreamingFailed, TRUE, processed_thread_id[t])
      /\ processed_thread_id[t] # None
      /\ persisted[t] = {}
      /\ clean[t] =>
           /\ Known(processed_thread_id[t])
           /\ thread_store[processed_thread_id[t]] = resolved[t].dialogue
           /\ supervisor_thread_store[processed_thread_id[t]] = resolved[t].routing
           /\ \A u \in Turns :
                (u > t /\ ~streaming[u] /\ pc[u] = "load_dialogue"
                 /\ thread_id[u] = processed_thread_id[t]) => resolved[u] = resolved[t]

\* a stream failed after a chunk, its responder had already run on the live
\* thread, and a later processMessage call has resolved the session
MidStreamFailureWitness ==
  \E t, u \in Turns :
    /\ MidStreamFailure(t) /\ chunks[t] > 0 /\ clean[t]
    /\ Dispatched(t)
    /\ dialogue_thread[dispatched[t].thread] # resolved[t].dialogue
    /\ u > t /\ ~streaming[u] /\ pc[u] = "load_dialogue"
    /\ thread_id[u] = processed_thread_id[t]

\* C6: a turn that was given an id with no state, or with one lane only, ends with a
\* well-formed result that carries the id it was given.
UnknownSessionRetry ==
  \A t \in Turns :
    SessionNotFound(t) =>
      IF streaming[t]
        THEN Last(emitted[t]).is_final /\ Last(emitted[t]).thread_id = thread_id[t]
        ELSE result[t].kind = "returned" /\ result[t].thread_id = thread_id[t]

\* C7: once a streaming turn has a session id, every final element it emits
\* carries that id.
FinalCarriesSessionId ==
  \A t \in Turns :
    (streaming[t] /\ processed_thread_id[t] # None) =>
      \A i \in 1..Len(emitted[t]) :
        emitted[t][i].is_final => emitted[t][i].thread_id = processed_thread_id[t]

\* C8, as stated: every session id a streaming element carries is a key of both
\* lanes.
EmittedIdIsStored ==
  \A t \in Turns : \A i \in 1..Len(emitted[t]) :
    emitted[t][i].thread_id # None => Known(emitted[t][i].thread_id)

\* C8, amended: the clean final element is emitted after lines 125-126 wrote both
\* lanes under its id, and every session id a streaming element carries is a key
\* of both lanes, except the caller's own id echoed by the error element of line
\* 135 when the turn failed before it resolved the session (the agent could not be
\* built, or the id had no state or one lane only).
EmittedIdIsStoredOrEchoed ==
  \A t \in Turns : \A i \in 1..Len(emitted[t]) :
    LET el == emitted[t][i] IN
      /\ el.text = Empty =>
           /\ el.thread_id = processed_thread_id[t]
           /\ persisted[t] = {"dialogue", "routing"}
           /\ Known(el.thread_id)
      /\ el.thread_id # None =>
           \/ Known(el.thread_id)
           \/ el = ErrorElement(thread_id[t], NotFound(thread_id[t]))
           \/ el = ErrorElement(thread_id[t], Failure) /\ processed_thread_id[t] = None

\* a new session's stream ended cleanly, and another stream echoed an unknown id
EmittedIdWitness ==
  /\ \E t \in Turns : Streamed(t) /\ Completed(t) /\ thread_id[t] = None
  /\ \E t \in Turns : Streamed(t) /\ SessionNotFound(t) /\ ~Known(thread_id[t])

\* C9: a turn that completes without dispatching a responder returns the decline
\* (processMessage) and its session id, minted when none was given; lines
\* 125-126 / 176-177 wrote both lanes under the id, so a lookup of it succeeds, and
\* the routing lane it wrote ends with the caller's text and the decline.
DeclinedTurnPersists ==
  \A t \in Turns :
    (Completed(t) /\ ~Dispatched(t)) =>
      LET id == processed_thread_id[t] IN
        /\ id # None /\ (thread_id[t] # None => id = thread_id[t])
        /\ IF streaming[t] THEN Last(emitted[t]).thread_id = id
                           ELSE result[t] = Returned(Decline, id)
        /\ persisted[t] = {"dialogue", "routing"}
        /\ Known(id)
        /\ clean[t] =>
             /\ supervisor_thread_store[id] =
                  resolved[t].routing \o <<Msg("user", Utterance(t)), Msg("assistant", Decline)>>
             /\ Decline \in Texts(supervisor_thread_store[id])

\* processMessage declined on a session that already had a routing history
DeclinedTurnWitness ==
  \E t \in Turns :
    /\ Completed(t) /\ ~Dispatched(t) /\ ~streaming[t] /\ clean[t]
    /\ thread_id[t] # None /\ resolved[t].routing # << >>

\* C10: after a completed turn that dispatched a responder, the routing lane of
\* the session does not hold the responder's answer, and the dialogue lane does.
RoutingStateIsolation ==
  \A t \in Turns :
    (Completed(t) /\ Dispatched(t) /\ clean[t]) =>
      /\ Reply(dispatched[t].text) \notin Texts(supervisor_thread_store[processed_thread_id[t]])
      /\ Reply(dispatched[t].text) \in Texts(thread_store[processed_thread_id[t]])

\* C11: when the router's run or the responder it dispatched fails in a
\* processMessage turn, the turn ends by returning a result that carries the
\* session id of the turn.
RunFailureReturnsResult ==
  [][\A t \in Turns :
       (~streaming[t] /\ pc[t] \in InStream /\ pc'[t] = "done") =>
         /\ result'[t].kind = "returned"
         /\ result'[t].thread_id = processed_thread_id[t]]_vars

\* C12, as stated: after the caller closed a streaming turn before its final
\* element, the store is as it was before the turn started: a resumed session has
\* its lanes unchanged, a new session's id is a key of neither lane.
AbandonLeavesStoreAsBefore ==
  \A t \in Turns :
    (Abandoned(t) /\ clean[t]) =>
      LET id == processed_thread_id[t] IN
        IF thread_id[t] = None
          THEN id \notin DOMAIN thread_store /\ id \notin DOMAIN supervisor_thread_store
          ELSE thread_store[id] = resolved[t].dialogue
               /\ supervisor_thread_store[id] = resolved[t].routing

\* C12, amended: a closed streaming turn emitted no final element and wrote no
\* lane after it resolved its session; as long as no other turn wrote them, both
\* lanes under its id are the ones it resolved, which for a new session are the
\* two lanes lines 83-84 stored under the new id before the first chunk.
AbandonLeavesSessionAsResolved ==
  \A t \in Turns :
    Abandoned(t) =>
      LET id == processed_thread_id[t] IN
        /\ \A i \in 1..Len(emitted[t]) : ~emitted[t][i].is_final
        /\ persisted[t] = {}
        /\ clean[t] =>
             /\ Known(id)
             /\ thread_store[id] = resolved[t].dialogue
             /\ supervisor_thread_store[id] = resolved[t].routing

\* a new session's stream was closed after a chunk, and so was a stream that had
\* resumed that session and whose responder had already run on the live thread
AbandonWitness ==
  \E t, u \in Turns :
    /\ Abandoned(t) /\ clean[t] /\ thread_id[t] = None
    /\ Abandoned(u) /\ clean[u] /\ thread_id[u] = processed_thread_id[t]
    /\ Dispatched(u)
    /\ dialogue_thread[dispatched[u].thread] # resolved[u].dialogue

\* C13: a turn given a session id that is missing from a lane ends in the step
\* that looked the id up, that step leaves both stores as they were, and a turn
\* that has ended takes no further step: the id is not fabricated and a session
\* with one lane is not repaired.
UnknownSessionNotFabricated ==
  [][\A t \in Turns :
       /\ (/\ pc[t] = "idle" /\ pc'[t] # "idle" /\ thread_id'[t] # None
           /\ \/ thread_id'[t] \notin DOMAIN thread_store
              \/ thread_id'[t] \notin DOMAIN supervisor_thread_store)
          => /\ pc'[t] = "done"
             /\ thread_store' = thread_store
             /\ supervisor_thread_store' = supervisor_thread_store
             /\ dialogue_thread' = dialogue_thread
       /\ pc[t] = "done" => pc'[t] = "done"]_vars

\* a turn was refused an id that is a key of the dialogue lane only, and the id
\* is still a key of that lane only
UnknownSessionWitness ==
  \E t \in Turns :
    /\ SessionNotFound(t)
    /\ thread_id[t] \in DOMAIN thread_store
    /\ thread_id[t] \notin DOMAIN supervisor_thread_store
    /\ \A u \in Turns : pc[u] \in {"idle", "done", "closed"}

\* C14: in one turn the router dispatches at most one responder, at most once.
SingleRoutingDecision ==
  \A t \in Turns : dispatched[t].calls <= 1

\* C15: when two turns resolved the same state of one session and both completed,
\* the session holds what one of them wrote: in both lanes the state that turn
\* resolved plus that turn's own update, and nothing of the other turn.
LastWriterWins ==
  \A t, u \in Turns :
    (/\ t # u /\ Completed(t) /\ Completed(u)
     /\ processed_thread_id[t] = processed_thread_id[u]
     /\ resolved[t] = resolved[u]
     /\ \A v \in Turns \ {t, u} : processed_thread_id[v] # processed_thread_id[t]) =>
      \E w \in {t, u} :
        LET id == processed_thread_id[w] IN
          /\ thread_store[id] =
               resolved[w].dialogue \o Repeated(Exchange(Utterance(w)), dispatched[w].calls)
          /\ supervisor_thread_store[id] =
               resolved[w].routing \o RouterMessages(w, response[w])

\* C16: a streaming turn that found no run_stream emitted one element only, final,
\* with the fixed message and the turn's session id; no router run and no
\* responder ran, no lane was persisted; as long as no other turn wrote them, both
\* lanes under the id are the ones the turn resolved, and a later turn given the
\* id resolves exactly them.
StreamingUnsupportedIsSoleElement ==
  \A t \in Turns :
    (Streamed(t) /\ Last(emitted[t]).text = StreamingUnsupported) =>
      LET id == processed_thread_id[t] IN
        /\ emitted[t] = <<Element(StreamingUnsupported, TRUE, id)>>
        /\ id # None /\ (thread_id[t] # None => id = thread_id[t])
        /\ ~Dispatched(t) /\ chunks[t] = 0 /\ response[t] = NoText
        /\ supervisor_resumed_thread[t] = resolved[t].routing
        /\ persisted[t] = {}
        /\ clean[t] =>
             /\ Known(id)
             /\ thread_store[id] = resolved[t].dialogue
             /\ supervisor_thread_store[id] = resolved[t].routing
             /\ \A u \in Turns :
                  (u > t /\ pc[u] = "load_dialogue" /\ thread_id[u] = id) =>
                    resolved[u] = resolved[t]

\* streaming was unavailable in a turn that had resumed a session with a history
StreamingUnsupportedWitness ==
  \E t \in Turns :
    /\ Streamed(t) /\ Last(emitted[t]).text = StreamingUnsupported /\ clean[t]
    /\ thread_id[t] # None
    /\ resolved[t].routing # << >> /\ resolved[t].dialogue # << >>

\* C17: a turn that completed without dispatching a responder persisted, as the
\* dialogue lane of its session, the dialogue it resolved at its start, and a
\* routing lane that grew by the turn.
RouterWritesNoDialogue ==
  \A t \in Turns :
    (Completed(t) /\ ~Dispatched(t) /\ clean[t]) =>
      LET id == processed_thread_id[t] IN
        /\ thread_store[id] = resolved[t].dialogue
        /\ supervisor_thread_store[id] = resolved[t].routing \o RouterMessages(t, response[t])

\* C18: every turn that was called ends: from some point on, every turn is either
\* not called yet or over, a processMessage call by returning or raising, a
\* processMessageStream generator by its final element unless it was closed; and
\* a turn that is not over can always take its next step, whatever the other
\* turns are doing.
EveryTurnTerminates ==
  /\ [](\A t \in Turns : pc[t] \notin {"idle", "done", "closed"} => ENABLED Proceed(t))
  /\ <>[](\A t \in Turns : pc[t] = "idle" \/ Ended(t))

\* two overlapping turns on different sessions have both ended, one a stream that
\* relayed all its chunks after two dispatches
TerminationWitness ==
  \E t, u \in Turns :
    /\ t # u /\ processed_thread_id[t] # processed_thread_id[u]
    /\ Streamed(t) /\ Completed(t) /\ chunks[t] = MaxChunks
    /\ dispatched[t].calls = MaxDispatches
    /\ dispatched[t].thread = u
    /\ ~streaming[u] /\ Completed(u)

WritesOwnKeyOnly ==
  [][/\ DOMAIN thread_store \subseteq DOMAIN thread_store'
     /\ DOMAIN supervisor_thread_store \subseteq DOMAIN supervisor_thread_store'
     /\ \A k \in DOMAIN thread_store' \cup DOMAIN supervisor_thread_store' :
          (\/ k \in DOMAIN thread_store' /\ (k \notin DOMAIN thread_store
                                              \/ thread_store'[k] # thread_store[k])
           \/ k \in DOMAIN supervisor_thread_store'
                /\ (k \notin DOMAIN supervisor_thread_store
                    \/ supervisor_thread_store'[k] # supervisor_thread_store[k]))
          => \E t \in Turns : pc'[t] # pc[t] /\ processed_thread_id[t] = k
     /\ \A t \in Turns :
          (pc[t] = "idle" /\ pc'[t] # "idle" /\ thread_id'[t] = None
           /\ processed_thread_id'[t] # None) =>
            /\ processed_thread_id'[t] \notin DOMAIN thread_store
            /\ processed_thread_id'[t] \notin DOMAIN supervisor_thread_store
            /\ \A u \in Turns \ {t} : processed_thread_id[u] # processed_thread_id'[t]]_vars

\* two sessions with different histories, each written by a completed turn, the
\* second one created after the first
OwnKeyWitness ==
  \E t, u \in Turns :
    /\ Completed(t) /\ Completed(u) /\ thread_id[t] = None /\ thread_id[u] = None
    /\ processed_thread_id[t] < processed_thread_id[u]
    /\ Known(processed_thread_id[t]) /\ Known(processed_thread_id[u])
    /\ Untagged(thread_store[processed_thread_id[t]]) # Untagged(thread_store[processed_thread_id[u]])

=============================================================================
